---------------------------- MODULE Spec2Model ----------------------------
(***************************************************************************)
(* Accent clustering tool: MFCC feature extraction, KMeans training with   *)
(* persisted model + reference table, and nearest-centroid inference with  *)
(* a same-cluster lookup (train_model.py, test_model.py, app.py).          *)
(*                                                                         *)
(* Numbers.  Features are float64 in the program.  The model uses exact    *)
(* arithmetic: a feature vector is a sequence of N_MFCC integers, and a    *)
(* mean of vectors (an MFCC time average, a centroid) is kept as the pair  *)
(* [sum, n] standing for sum/n, compared by cross multiplication.          *)
(***************************************************************************)
EXTENDS Integers, Sequences, FiniteSets, TLC

VARIABLES
    lk,      \* lookup study: a loaded reference table, a cluster id, the result
    asg,     \* assignment study: a loaded model, a feature vector, the result
    ex,      \* extraction study: a decoded clip's MFCC matrix, the result
    corpus,  \* the training directory, in os.listdir order
    disk,    \* MODEL_OUTPUT / REFERENCE_CSV as they are on disk
    kmeans,  \* per cluster count k, what KMeans can return on this corpus
    runs,    \* number of training runs started so far
    cache,   \* app.py: what st.cache holds for load_model_and_data()
    last,    \* the last command run (train_model.py, test_model.py or an
             \* app.py script run) and what it did
    km,      \* fit study: a feature matrix, k, the seeds, and the fit's course
    vp       \* a VideoProcessor: its output directory and its last call

vars == <<lk, asg, ex, corpus, kmeans, disk, runs, cache, last, km, vp>>

---------------------------------------------------------------------------
(* Program constants *)

N_MFCC == 13
HEAD_LIMIT == 10
ELBOW_MAX_K == 20

(* Bounds of the model *)

MaxRows == 12      \* rows of a reference table in the lookup study
MaxK == 2          \* largest requested cluster count
MaxFiles == 3      \* directory entries of the training corpus
MaxRuns == 2       \* training runs in one behaviour
MaxIter == 3       \* Lloyd iteration cap (KMeans max_iter)
MaxFrames == 4     \* analysis frames of a clip in the extraction study

---------------------------------------------------------------------------
(* Small helpers.  A sequence built as a function is concatenated with     *)
(* the empty sequence so that it is held as a tuple of values.             *)

Min(a, b) == IF a <= b THEN a ELSE b

RECURSIVE SumTo(_, _)
\* f[1] + ... + f[n]
SumTo(f, n) == IF n = 0 THEN 0 ELSE f[n] + SumTo(f, n - 1)

\* A feature vector whose first two coefficients are a and b, the rest 0.
Feat(a, b) ==
    [i \in 1..N_MFCC |-> IF i = 1 THEN a ELSE IF i = 2 THEN b ELSE 0] \o <<>>

---------------------------------------------------------------------------
(* ReferenceIndex lookup: ref_df[ref_df['cluster'] == cluster], .head(10) *)

\* Boolean-mask row selection: keeps the matching rows, in table order.
Matches(ref_df, cluster) ==
    SelectSeq(ref_df, LAMBDA row : row.cluster = cluster)

\* A faulty variant: the last n rows.
DfTail(df, n) == SubSeq(df, Len(df) - Min(n, Len(df)) + 1, Len(df))

\* DataFrame.head(n) for n >= 0: the first n rows, or all when fewer.
DfHead(df, n) == SubSeq(df, 1, Min(n, Len(df)))

\* What the CLI prints and the UI shows for a cluster id.
Lookup(ref_df, cluster) == DfHead(Matches(ref_df, cluster), HEAD_LIMIT)

---------------------------------------------------------------------------
(* ClusterModel.assign: model.predict([feature])[0] *)

\* A centroid is [sum |-> vector, n |-> weight > 0], the point sum/n.
\* n^2 * squared Euclidean distance from v to the centroid c.
ScaledSqDist(v, c) ==
    SumTo([i \in 1..N_MFCC |-> (c.n * v[i] - c.sum[i]) * (c.n * v[i] - c.sum[i])],
          N_MFCC)

\* dist(v, a) < dist(v, b)
Closer(v, a, b) == ScaledSqDist(v, a) * b.n * b.n < ScaledSqDist(v, b) * a.n * a.n

RECURSIVE ArgMinLast(_, _, _, _)
\* A faulty variant: a later centroid wins a tie.
ArgMinLast(v, centers, j, best) ==
    IF j > Len(centers) THEN best
    ELSE ArgMinLast(v, centers, j + 1,
                    IF ~Closer(v, centers[best], centers[j]) THEN j ELSE best)

PredictLast(centers, v) == ArgMinLast(v, centers, 2, 1) - 1

RECURSIVE ArgMin(_, _, _, _)
\* Scan of the centroids keeping the first strict minimum (argmin).
ArgMin(v, centers, j, best) ==
    IF j > Len(centers) THEN best
    ELSE ArgMin(v, centers, j + 1,
                IF Closer(v, centers[j], centers[best]) THEN j ELSE best)

\* The predicted cluster id, in 0..K-1, for centroids centers[1..K].
Predict(centers, v) == ArgMin(v, centers, 2, 1) - 1

\* v lies exactly on the centroid c.
AtCentroid(v, c) == \A i \in 1..N_MFCC : c.n * v[i] = c.sum[i]

\* Two centroids are the same point.
SamePoint(a, b) == \A i \in 1..N_MFCC : a.sum[i] * b.n = b.sum[i] * a.n

---------------------------------------------------------------------------
(* Lookup study: every small reference table, every cluster id *)

LookupIds == {0, 1}
QueryIds == -1 .. MaxK

Tables ==
    UNION {{[i \in 1..n |-> [filename |-> i, cluster |-> f[i]]] :
                f \in [1..n -> LookupIds]} : n \in 0..MaxRows}

\* The values the other studies' variables keep while one study runs.
IdleLk == [ref_df |-> <<>>, cluster |-> 0, out |-> <<>>, done |-> FALSE]
IdleAsg == [centers |-> <<>>, v |-> <<>>, out |-> 0, done |-> FALSE]
IdleEx == [mfcc |-> <<>>, out |-> <<>>, done |-> FALSE]
IdleKm == [X |-> <<>>, k |-> 0, done |-> FALSE]
IdleVp == [calls |-> 0]

InitLookup ==
    /\ lk \in {[ref_df |-> t, cluster |-> c, out |-> <<>>, done |-> FALSE] :
                  t \in Tables, c \in QueryIds}
    /\ asg = IdleAsg
    /\ ex = IdleEx
    /\ corpus = <<>>
    /\ kmeans = <<>>
    /\ disk = <<>>
    /\ runs = 0
    /\ km = IdleKm
    /\ vp = IdleVp
    /\ cache = <<>>
    /\ last = <<>>

\* predict_cluster's lookup half: select the rows, show the first ten.
DoLookup ==
    /\ ~lk.done
    /\ lk' = [lk EXCEPT !.out = Lookup(lk.ref_df, lk.cluster), !.done = TRUE]
    /\ UNCHANGED <<km, vp, asg, ex, corpus, kmeans, disk, runs, cache, last>>

SpecLookup == InitLookup /\ [][DoLookup]_vars

\* Positions of the table whose recorded cluster id is c.
MatchPos(t, c) == {i \in 1..Len(t) : t[i].cluster = c}

\* C1: the lookup with limit 10 returns exactly the first min(10, n_c) rows
\* whose recorded cluster id equals c, in table (training insertion) order,
\* never a row of another cluster, and the empty sequence (no error) for an
\* id no row carries, in range or not.
C1_LookupFirstTenInOrder ==
    lk.done =>
        LET t == lk.ref_df
            c == lk.cluster
            pos == MatchPos(t, c)
        IN  /\ Len(lk.out) = Min(HEAD_LIMIT, Cardinality(pos))
            /\ \A r \in 1..Len(lk.out) :
                 \E i \in pos : /\ Cardinality({j \in pos : j <= i}) = r
                                /\ lk.out[r] = t[i]
            /\ \A r \in 1..Len(lk.out) : lk.out[r].cluster = c
            /\ (pos = {} => lk.out = <<>>)

\* A lookup that had more than ten matching rows, with other rows between.
C1_Witness ==
    /\ lk.done
    /\ Cardinality(MatchPos(lk.ref_df, lk.cluster)) > HEAD_LIMIT
    /\ Len(lk.out) = HEAD_LIMIT
    /\ lk.ref_df[1].cluster # lk.cluster

---------------------------------------------------------------------------
(* Assignment study: every small model, every small feature vector *)

Coords1 == {0, 1, 2}
Coords2 == {0, 1}
Weights == {1, 2}

FeatPool == {Feat(a, b) : a \in Coords1, b \in Coords2}
CentroidPool == {[sum |-> f, n |-> w] : f \in FeatPool, w \in Weights}

InitAssign ==
    /\ asg \in {[centers |-> cs, v |-> v, out |-> 0, done |-> FALSE] :
                   cs \in UNION {[1..k -> CentroidPool] : k \in 1..MaxK},
                   v \in FeatPool}
    /\ lk = IdleLk
    /\ ex = IdleEx
    /\ corpus = <<>>
    /\ kmeans = <<>>
    /\ disk = <<>>
    /\ runs = 0
    /\ km = IdleKm
    /\ vp = IdleVp
    /\ cache = <<>>
    /\ last = <<>>

\* predict_cluster's assignment half: cluster = model.predict([feature])[0]
DoAssign ==
    /\ ~asg.done
    /\ asg' = [asg EXCEPT !.out = Predict(asg.centers, asg.v), !.done = TRUE]
    /\ UNCHANGED <<km, vp, lk, ex, corpus, kmeans, disk, runs, cache, last>>

SpecAssign == InitAssign /\ [][DoAssign]_vars

\* The returned id is in range, at minimal distance, lowest among the ties.
NearestLowest(centers, v, id) ==
    /\ id \in 0..(Len(centers) - 1)
    /\ \A j \in 1..Len(centers) : ~Closer(v, centers[j], centers[id + 1])
    /\ \A j \in 1..id : Closer(v, centers[id + 1], centers[j])

\* C2 as stated: assign(v) is in [0,K), minimises the Euclidean distance,
\* takes the lowest index among ties, and for v exactly at centroid i
\* returns i.
C2_AsStated ==
    asg.done =>
        /\ NearestLowest(asg.centers, asg.v, asg.out)
        /\ \A i \in 1..Len(asg.centers) :
             AtCentroid(asg.v, asg.centers[i]) => asg.out = i - 1

\* C2 amended: assign(v) is in [0,K), minimises the Euclidean distance and
\* takes the lowest index among ties; for v exactly at centroid i it returns
\* the lowest index whose centroid is the same point as centroid i (i itself
\* when no lower-indexed centroid coincides with it).
C2_NearestLowestIndex ==
    asg.done =>
        /\ NearestLowest(asg.centers, asg.v, asg.out)
        /\ \A i \in 1..Len(asg.centers) :
             AtCentroid(asg.v, asg.centers[i]) =>
                /\ SamePoint(asg.centers[asg.out + 1], asg.centers[i])
                /\ \A j \in 1..asg.out : ~SamePoint(asg.centers[j], asg.centers[i])
                /\ ((\A j \in 1..(i - 1) : ~SamePoint(asg.centers[j], asg.centers[i]))
                       => asg.out = i - 1)

\* An assignment of a vector lying exactly on centroid 1 (the second of
\* two), which centroid 0 duplicates: the tie at distance 0 goes to id 0.
C2_Witness ==
    /\ asg.done
    /\ Len(asg.centers) = 2
    /\ AtCentroid(asg.v, asg.centers[2])
    /\ SamePoint(asg.centers[1], asg.centers[2])
    /\ asg.centers[1].n # asg.centers[2].n
    /\ asg.out = 0

\* An assignment of a vector lying exactly on centroid 1, distinct from
\* centroid 0: the id returned is 1.
C2_AtOwnCentroid ==
    /\ asg.done
    /\ Len(asg.centers) = 2
    /\ AtCentroid(asg.v, asg.centers[2])
    /\ ~SamePoint(asg.centers[1], asg.centers[2])
    /\ asg.out = 1

---------------------------------------------------------------------------
(* FeatureExtractor: extract_features *)

\* mfcc.T: the transpose of a matrix given as a sequence of rows.
Transpose(m) == [t \in 1..Len(m[1]) |-> [c \in 1..Len(m) |-> m[c][t]]]

\* np.mean(a, axis=1): one mean per row, each [sum, n] standing for sum/n.
MeanAxis1(a) ==
    [r \in 1..Len(a) |-> [sum |-> SumTo(a[r], Len(a[r])), n |-> Len(a[r])]]

\* np.mean(a, axis=0): one mean per column, taken over all the rows.
MeanAxis0(a) ==
    [c \in 1..Len(a[1]) |->
        [sum |-> SumTo([r \in 1..Len(a) |-> a[r][c]], Len(a)), n |-> Len(a)]]

\* A faulty variant: the mean is taken along the other axis.
MfccMeanWrongAxis(mfcc) == MeanAxis1(Transpose(mfcc))

\* extract_features after decoding: mfcc is the (N_MFCC x frames) matrix
\* librosa.feature.mfcc returns; the result is np.mean(mfcc.T, axis=0).
\* astype('float64') keeps every value.
MfccMean(mfcc) == MeanAxis0(Transpose(mfcc))

(* Extraction study: clips of 1..MaxFrames analysis frames.  A clip is its  *)
(* sequence of frame kinds; coefficient c of a frame of kind q at position  *)
(* t stands for the cepstral transform's value there.                       *)

FrameKinds == {0, 1, 2}
Coefficient(c, t, q) == ((c * (q + 1) + t * q) % 7) - 3

Clips == UNION {[1..n -> FrameKinds] : n \in 1..MaxFrames}

\* librosa.feature.mfcc(y, sr, n_mfcc=N_MFCC): N_MFCC rows, one column per frame.
MfccOf(clip) ==
    [c \in 1..N_MFCC |-> [t \in 1..Len(clip) |-> Coefficient(c, t, clip[t])]]

InitExtract ==
    /\ ex \in {[mfcc |-> MfccOf(clip), out |-> <<>>, done |-> FALSE] : clip \in Clips}
    /\ lk = IdleLk
    /\ asg = IdleAsg
    /\ corpus = <<>>
    /\ kmeans = <<>>
    /\ disk = <<>>
    /\ runs = 0
    /\ km = IdleKm
    /\ vp = IdleVp
    /\ cache = <<>>
    /\ last = <<>>

DoExtract ==
    /\ ~ex.done
    /\ ex' = [ex EXCEPT !.out = MfccMean(ex.mfcc), !.done = TRUE]
    /\ UNCHANGED <<km, vp, lk, asg, corpus, kmeans, disk, runs, cache, last>>

SpecExtract == InitExtract /\ [][DoExtract]_vars

RECURSIVE SeqSum(_)
SeqSum(s) == IF s = <<>> THEN 0 ELSE Head(s) + SeqSum(Tail(s))

\* C9: whatever the number of frames (at least one), the extracted vector
\* has exactly N_MFCC = 13 elements, and element c is the arithmetic mean of
\* coefficient c over all the frames: out[c] * frames = sum of row c.
C9_ThirteenMeans ==
    ex.done =>
        /\ Len(ex.out) = N_MFCC
        /\ \A c \in 1..N_MFCC :
             /\ ex.out[c].n = Len(ex.mfcc[c])
             /\ ex.out[c].n > 0
             /\ ex.out[c].sum = SeqSum(ex.mfcc[c])

\* An extraction from a clip of several frames, other than 13 of them.
C9_Witness ==
    /\ ex.done
    /\ Len(ex.mfcc[1]) = MaxFrames
    /\ Len(ex.out) = N_MFCC
    /\ ex.out[1].sum # ex.out[2].sum

---------------------------------------------------------------------------
(* KMeans(n_clusters=k, random_state=42).fit_predict(features)             *)
(*                                                                         *)
(* X is the feature matrix, a sequence of integer vectors.  The seeded     *)
(* k-means++ initialisation is an input of the fit: a sequence init of k   *)
(* row numbers of X.  prio breaks the ties among equally far points when   *)
(* an empty cluster is relocated.                                          *)

VAdd(u, v) == [i \in 1..N_MFCC |-> u[i] + v[i]] \o <<>>
VSub(u, v) == [i \in 1..N_MFCC |-> u[i] - v[i]] \o <<>>
VZero == [i \in 1..N_MFCC |-> 0] \o <<>>

\* The centroid that is the data point x.
Pt(x) == [sum |-> x, n |-> 1]

\* E-step: the label of every row, the nearest centroid's id (0-based).
EStep(X, centers) == [i \in 1..Len(X) |-> Predict(centers, X[i])] \o <<>>

RECURSIVE ClusterSum(_, _, _, _)
\* Sum of the rows 1..i of X labelled j.
ClusterSum(X, labels, j, i) ==
    IF i = 0 THEN VZero
    ELSE IF labels[i] = j THEN VAdd(X[i], ClusterSum(X, labels, j, i - 1))
    ELSE ClusterSum(X, labels, j, i - 1)

ClusterCount(labels, j) == Cardinality({i \in 1..Len(labels) : labels[i] = j})

\* Row a is farther from its assigned centroid than row b is from its own.
Farther(X, centers, labels, a, b) ==
    LET ca == centers[labels[a] + 1]
        cb == centers[labels[b] + 1]
    IN  ScaledSqDist(X[a], ca) * cb.n * cb.n > ScaledSqDist(X[b], cb) * ca.n * ca.n

RECURSIVE FarFromCenters(_, _, _, _, _, _)
\* The m rows farthest from their assigned centroids, farthest first.
FarFromCenters(X, centers, labels, prio, cands, m) ==
    IF m = 0 \/ cands = {} THEN <<>>
    ELSE LET f == CHOOSE a \in cands : \A b \in cands \ {a} :
                      \/ Farther(X, centers, labels, a, b)
                      \/ /\ ~Farther(X, centers, labels, b, a)
                         /\ prio[a] < prio[b]
         IN  <<f>> \o FarFromCenters(X, centers, labels, prio, cands \ {f}, m - 1)

RECURSIVE Relocate(_, _, _, _, _, _)
\* _relocate_empty_clusters: the idx-th empty cluster takes the idx-th far
\* row, which leaves the cluster it was counted in.  st = [sum, cnt], both
\* indexed by cluster.
Relocate(X, labels, st, empties, far, idx) ==
    IF idx > Len(empties) \/ idx > Len(far) THEN st
    ELSE LET new == empties[idx]
             x == X[far[idx]]
             old == labels[far[idx]] + 1
             s1 == [st.sum EXCEPT ![old] = VSub(st.sum[old], x)]
             s2 == [s1 EXCEPT ![new] = x]
             c1 == [st.cnt EXCEPT ![new] = 1]
             c2 == [c1 EXCEPT ![old] = c1[old] - 1]
         IN  Relocate(X, labels, [sum |-> s2, cnt |-> c2], empties, far, idx + 1)

RECURSIVE AscendingSeq(_)
\* The elements of a set of integers, ascending.
AscendingSeq(S) ==
    IF S = {} THEN <<>>
    ELSE LET m == CHOOSE x \in S : \A y \in S : x <= y
         IN  <<m>> \o AscendingSeq(S \ {m})

\* _average_centers: sum / weight; a cluster left without weight is placed
\* where the biggest cluster's row of the array stands at that moment
\* (already averaged if it comes earlier, still a sum if it comes later).
AverageCenters(st) ==
    LET k == Len(st.cnt)
        big == CHOOSE a \in 1..k : /\ \A b \in 1..k : st.cnt[b] <= st.cnt[a]
                                   /\ \A b \in 1..(a - 1) : st.cnt[b] < st.cnt[a]
    IN  [j \in 1..k |->
            IF st.cnt[j] > 0 THEN [sum |-> st.sum[j], n |-> st.cnt[j]]
            ELSE IF big < j THEN [sum |-> st.sum[big], n |-> st.cnt[big]]
            ELSE [sum |-> st.sum[big], n |-> 1]] \o <<>>

\* A faulty variant: the plain mean of the assigned rows, nothing done for
\* a cluster without rows (its mean is 0/0).
MStepPlain(X, centers, labels, prio) ==
    [j \in 1..Len(centers) |->
        [sum |-> ClusterSum(X, labels, j - 1, Len(X)),
         n |-> ClusterCount(labels, j - 1)]] \o <<>>

\* M-step of one Lloyd iteration: the new centroids from the labels.
MStep(X, centers, labels, prio) ==
    LET k == Len(centers)
        st0 == [sum |-> [j \in 1..k |-> ClusterSum(X, labels, j - 1, Len(X))] \o <<>>,
                cnt |-> [j \in 1..k |-> ClusterCount(labels, j - 1)] \o <<>>]
        empties == AscendingSeq({j \in 1..k : st0.cnt[j] = 0})
        far == FarFromCenters(X, centers, labels, prio, 1..Len(X), Len(empties))
    IN  AverageCenters(Relocate(X, labels, st0, empties, far, 1))

SameCenters(a, b) == \A j \in 1..Len(a) : SamePoint(a[j], b[j])

RECURSIVE Lloyd(_, _, _, _, _)
\* _kmeans_single_lloyd: iterate until the labels repeat (strict
\* convergence), the centroids stop moving, or the iteration cap; unless
\* the convergence was strict, a last E-step makes the labels those of the
\* returned centroids.
Lloyd(X, centers, labels_old, prio, it) ==
    IF it >= MaxIter THEN [centers |-> centers, labels |-> EStep(X, centers)]
    ELSE LET labels == EStep(X, centers)
             new == MStep(X, centers, labels, prio)
         IN  IF labels = labels_old THEN [centers |-> new, labels |-> labels]
             ELSE IF SameCenters(new, centers)
                  THEN [centers |-> new, labels |-> EStep(X, new)]
             ELSE Lloyd(X, new, labels, prio, it + 1)

\* The k-means++ seeds: each next seed is a row away from the seeds so far,
\* or, when every row coincides with a seed, any row.
SeedOk(X, init) ==
    \A j \in 2..Len(init) :
        LET away == {i \in 1..Len(X) : \A h \in 1..(j - 1) : X[i] # X[init[h]]}
        IN  away # {} => init[j] \in away

Seeds(X, k) == {init \in [1..k -> 1..Len(X)] : SeedOk(X, init)}

\* Tie orders among equally far rows: the rows in cyclic order from any row.
TieOrders(n) == {[i \in 1..n |-> ((i - start + n) % n) + 1] \o <<>> : start \in 1..n}

\* fit raises ValueError for an empty matrix or fewer rows than clusters.
FitRaises(X, k) == Len(X) = 0 \/ Len(X) < k

\* fit_predict on a matrix it accepts: the centroids and the labels.
KMeansFit(X, init, prio) ==
    Lloyd(X, [j \in 1..Len(init) |-> Pt(X[init[j]])] \o <<>>,
          [i \in 1..Len(X) |-> -1] \o <<>>, prio, 0)

RECURSIVE LloydIterates(_, _, _, _, _)
\* The course of Lloyd: for every iteration it runs, the labels of its
\* E-step and the centroids of its M-step.
LloydIterates(X, centers, labels_old, prio, it) ==
    IF it >= MaxIter THEN <<>>
    ELSE LET labels == EStep(X, centers)
             new == MStep(X, centers, labels, prio)
         IN  <<[labels |-> labels, centers |-> new]>> \o
             (IF labels = labels_old \/ SameCenters(new, centers) THEN <<>>
              ELSE LloydIterates(X, new, labels, prio, it + 1))

---------------------------------------------------------------------------
(* Fit study (SpecFit): one fit_predict call on a small feature matrix *)

FitCoords == {0, 3, 4}

\* Feature matrices of up to MaxFiles rows; rows may coincide.
FitMatrices ==
    UNION {[1..n -> {Feat(a, 0) : a \in FitCoords}] : n \in 0..MaxFiles}

InitFit ==
    /\ \E k \in 1..MaxK, X \in FitMatrices :
         IF FitRaises(X, k)
         THEN km = [X |-> X \o <<>>, k |-> k, init |-> <<>>, prio |-> <<>>,
                    done |-> FALSE]
         ELSE \E i \in Seeds(X, k), p \in TieOrders(Len(X)) :
                km = [X |-> X \o <<>>, k |-> k, init |-> i \o <<>>, prio |-> p,
                      done |-> FALSE]
    /\ lk = IdleLk
    /\ asg = IdleAsg
    /\ ex = IdleEx
    /\ vp = IdleVp
    /\ corpus = <<>>
    /\ kmeans = <<>>
    /\ disk = <<>>
    /\ runs = 0
    /\ cache = <<>>
    /\ last = <<>>

\* KMeans(n_clusters=k, random_state=42).fit_predict(X): ValueError for a
\* matrix fit does not accept, else the course of Lloyd and its result.
DoFit ==
    /\ ~km.done
    /\ km' = IF FitRaises(km.X, km.k)
             THEN [X |-> km.X, k |-> km.k, init |-> km.init, prio |-> km.prio,
                   done |-> TRUE, error |-> "ValueError", iterates |-> <<>>,
                   out |-> [centers |-> <<>>, labels |-> <<>>]]
             ELSE [X |-> km.X, k |-> km.k, init |-> km.init, prio |-> km.prio,
                   done |-> TRUE, error |-> "none",
                   iterates |-> LloydIterates(km.X,
                                   [j \in 1..km.k |-> Pt(km.X[km.init[j]])] \o <<>>,
                                   [i \in 1..Len(km.X) |-> -1] \o <<>>, km.prio, 0),
                   out |-> KMeansFit(km.X, km.init, km.prio)]
    /\ UNCHANGED <<lk, asg, ex, vp, corpus, kmeans, disk, runs, cache, last>>

SpecFit == InitFit /\ [][DoFit]_vars

\* A centroid is a defined vector: 13 coordinates over a positive weight.
Defined(c) == Len(c.sum) = N_MFCC /\ c.n > 0

---------------------------------------------------------------------------
(* The training corpus and train_model.py                                  *)
(*                                                                         *)
(* A directory entry is [name, audio, ok, a]: audio says the name ends in  *)
(* .mp3 or .wav, ok says librosa decodes it, and Feat(a, 0) stands for the *)
(* time-averaged MFCC vector of its clip.                                  *)

PipeCoords == {0, 3, 4}

FileKinds ==
    {[audio |-> TRUE, ok |-> TRUE, a |-> x] : x \in PipeCoords}
        \cup {[audio |-> TRUE, ok |-> FALSE, a |-> 0],
              [audio |-> FALSE, ok |-> FALSE, a |-> 0]}

Corpora ==
    UNION {{[i \in 1..n |-> [name |-> i, audio |-> f[i].audio, ok |-> f[i].ok,
                             a |-> f[i].a]] \o <<>> :
                f \in [1..n -> FileKinds]} : n \in 0..MaxFiles}

\* extract_features on a file: raises when the file does not decode.
Decodes(file) == file.ok
ExtractFeatures(file) == Feat(file.a, 0)

RECURSIVE LoadKeepFailed(_, _, _)
\* A faulty variant: a file that fails keeps its name, with a zero vector.
LoadKeepFailed(dir, i, acc) ==
    IF i > Len(dir) THEN acc
    ELSE IF ~dir[i].audio THEN LoadKeepFailed(dir, i + 1, acc)
    ELSE IF Decodes(dir[i])
         THEN LoadKeepFailed(dir, i + 1,
                 [acc EXCEPT !.features = Append(@, ExtractFeatures(dir[i])),
                             !.filenames = Append(@, dir[i].name)])
    ELSE LoadKeepFailed(dir, i + 1,
                 [acc EXCEPT !.features = Append(@, VZero),
                             !.filenames = Append(@, dir[i].name),
                             !.skipped = Append(@, dir[i].name)])

RECURSIVE LoadLoop(_, _, _)
\* The loop of load_audio_features over os.listdir(audio_dir), from entry i:
\* extension filter, then try extract / append both, except print a skip.
LoadLoop(dir, i, acc) ==
    IF i > Len(dir) THEN acc
    ELSE IF ~dir[i].audio THEN LoadLoop(dir, i + 1, acc)
    ELSE IF Decodes(dir[i])
         THEN LoadLoop(dir, i + 1,
                 [acc EXCEPT !.features = Append(@, ExtractFeatures(dir[i])),
                             !.filenames = Append(@, dir[i].name)])
    ELSE LoadLoop(dir, i + 1, [acc EXCEPT !.skipped = Append(@, dir[i].name)])

LoadAudioFeaturesKeepFailed(dir) ==
    LoadKeepFailed(dir, 1, [features |-> <<>>, filenames |-> <<>>, skipped |-> <<>>])

\* load_audio_features: the feature rows, their filenames, and the skip log.
LoadAudioFeatures(dir) ==
    LoadLoop(dir, 1, [features |-> <<>>, filenames |-> <<>>, skipped |-> <<>>])

\* plot_elbow fits KMeans for every k in 2..max_k: one of them raises
\* when there are fewer rows than max_k.
ElbowRaises(X) == \E k \in 2..ELBOW_MAX_K : FitRaises(X, k)

(* Files on disk *)

NoFile == [exists |-> FALSE, run |-> 0]

RECURSIVE ToDigits(_)
\* The decimal text of a non-negative integer, as to_csv writes it.
ToDigits(n) == IF n < 10 THEN <<n>> ELSE ToDigits(n \div 10) \o <<n % 10>>

RECURSIVE FromDigits(_)
\* The integer read_csv parses from decimal text.
FromDigits(d) ==
    IF Len(d) = 1 THEN d[1]
    ELSE 10 * FromDigits(SubSeq(d, 1, Len(d) - 1)) + d[Len(d)]

\* A faulty variant: the labels are paired in reverse order.
BuildFrameReversed(filenames, labels) ==
    [i \in 1..Len(filenames) |->
        [filename |-> filenames[i], cluster |-> labels[Len(labels) + 1 - i]]] \o <<>>

\* pd.DataFrame({'filename': filenames, 'cluster': labels}): row i pairs
\* the i-th filename with the i-th label.
BuildFrame(filenames, labels) ==
    [i \in 1..Len(filenames) |->
        [filename |-> filenames[i], cluster |-> labels[i]]] \o <<>>

\* df.to_csv(REFERENCE_CSV, index=False): one text row per frame row.
ToCsv(df) == [i \in 1..Len(df) |-> <<df[i].filename, ToDigits(df[i].cluster)>>] \o <<>>

\* pd.read_csv(REFERENCE_CSV): the frame parsed back from the text rows.
ReadCsv(rows) ==
    [i \in 1..Len(rows) |->
        [filename |-> rows[i][1], cluster |-> FromDigits(rows[i][2])]] \o <<>>

\* dump(kmeans, MODEL_OUTPUT): the fitted estimator's n_clusters and
\* cluster_centers_, stamped with the run that wrote the file.
ModelFile(fit, run) ==
    [exists |-> TRUE, k |-> Len(fit.centers), centers |-> fit.centers, run |-> run]
CsvFile(df, run) == [exists |-> TRUE, rows |-> ToCsv(df), run |-> run]

NoFit == [centers |-> <<>>, labels |-> <<>>]

\* What fit_predict can return for X and k under the fixed seed: one result
\* per k-means++ initialisation and tie order; NoFit when fit raises.
Fits(X, k) ==
    IF FitRaises(X, k) THEN {NoFit}
    ELSE {KMeansFit(X, i, p) : i \in Seeds(X, k), p \in TieOrders(Len(X))}

\* A faulty variant: the estimator is dumped before it is fitted.
TrainModelDumpFirst(d, X, filenames, k, fit, run, csvFails) ==
    IF FitRaises(X, k)
    THEN [disk |-> [d EXCEPT !.model = [exists |-> TRUE, k |-> k, centers |-> <<>>, run |-> run]],
          error |-> "ValueError"]
    ELSE LET d1 == [d EXCEPT !.model = ModelFile(fit, run)]
         IN  IF csvFails THEN [disk |-> d1, error |-> "OSError"]
             ELSE [disk |-> [d1 EXCEPT !.csv = CsvFile(BuildFrame(filenames, fit.labels), run)],
                   error |-> "none"]

\* train_model: fit_predict (raises before anything is written), dump the
\* model, build the frame, write the CSV.  fit is what fit_predict returns.
\* csvFails: to_csv raises OSError (the CSV is locked or the disk is full),
\* after the model was dumped.
TrainModel(d, X, filenames, k, fit, run, csvFails) ==
    IF FitRaises(X, k) THEN [disk |-> d, error |-> "ValueError"]
    ELSE LET d1 == [d EXCEPT !.model = ModelFile(fit, run)]
         IN  IF csvFails THEN [disk |-> d1, error |-> "OSError"]
             ELSE [disk |-> [d1 EXCEPT !.csv = CsvFile(BuildFrame(filenames, fit.labels), run)],
                   error |-> "none"]

\* train_model.py main(): load the features, optionally plot the elbow,
\* train and save.
TrainMainResult(d, dir, k, elbow, fit, run, csvFails) ==
    LET loaded == LoadAudioFeatures(dir)
        r == IF elbow /\ ElbowRaises(loaded.features)
             THEN [disk |-> d, error |-> "ValueError"]
             ELSE TrainModel(d, loaded.features, loaded.filenames, k, fit, run, csvFails)
    IN  [disk |-> r.disk,
         out |-> [cmd |-> "train", error |-> r.error, k |-> k, elbow |-> elbow,
                  run |-> run, features |-> loaded.features,
                  filenames |-> loaded.filenames, skipped |-> loaded.skipped]]

---------------------------------------------------------------------------
(* Inference: test_model.py and app.py *)

\* test_model.load_model_and_reference: both paths are checked first.
LoadModelAndReference(d) ==
    IF ~d.model.exists \/ ~d.csv.exists THEN [error |-> "FileNotFoundError"]
    ELSE [error |-> "none",
          model |-> [k |-> d.model.k, centers |-> d.model.centers],
          ref_df |-> ReadCsv(d.csv.rows)]

\* A faulty variant: a missing CSV loads as an empty table.
LoadModelAndDataLenient(d) ==
    IF ~d.model.exists THEN [error |-> "FileNotFoundError"]
    ELSE [error |-> "none",
          model |-> [k |-> d.model.k, centers |-> d.model.centers],
          ref_df |-> IF ~d.csv.exists THEN <<>> ELSE ReadCsv(d.csv.rows)]

\* app.load_model_and_data: joblib.load, then pd.read_csv; each raises
\* FileNotFoundError when its file is missing.
LoadModelAndData(d) ==
    IF ~d.model.exists THEN [error |-> "FileNotFoundError"]
    ELSE IF ~d.csv.exists THEN [error |-> "FileNotFoundError"]
    ELSE [error |-> "none",
          model |-> [k |-> d.model.k, centers |-> d.model.centers],
          ref_df |-> ReadCsv(d.csv.rows)]

\* A faulty variant: the table is filtered in place.
PredictClusterInPlace(file, model, ref_df) ==
    IF ~Decodes(file)
    THEN [error |-> "DecodeError", steps |-> <<"extract">>, cluster |-> -1,
          matches |-> <<>>, model |-> model, ref_df |-> ref_df]
    ELSE LET cluster == Predict(model.centers, ExtractFeatures(file))
             matches == Matches(ref_df, cluster)
         IN  [error |-> "none", steps |-> <<"extract", "assign", "lookup">>,
              cluster |-> cluster, matches |-> matches,
              model |-> model, ref_df |-> matches]

\* predict_cluster (the same in test_model.py and app.py): extract, assign,
\* select the rows of the same cluster.  model and ref_df in the result are
\* the caller's two objects as the call leaves them.
PredictCluster(file, model, ref_df) ==
    IF ~Decodes(file)
    THEN [error |-> "DecodeError", steps |-> <<"extract">>, cluster |-> -1,
          matches |-> <<>>, model |-> model, ref_df |-> ref_df]
    ELSE LET cluster == Predict(model.centers, ExtractFeatures(file))
             matches == Matches(ref_df, cluster)
         IN  [error |-> "none", steps |-> <<"extract", "assign", "lookup">>,
              cluster |-> cluster, matches |-> matches,
              model |-> model, ref_df |-> ref_df]

\* test_model.py main(): load, then predict and print the first ten.
TestMainResult(d, file) ==
    LET ld == LoadModelAndReference(d)
    IN  IF ld.error # "none"
        THEN [cmd |-> "test", loadError |-> ld.error,
              error |-> ld.error, steps |-> <<>>, cluster |-> -1, shown |-> <<>>]
        ELSE LET r == PredictCluster(file, ld.model, ld.ref_df)
             IN  [cmd |-> "test", loadError |-> "none",
                  error |-> r.error, steps |-> r.steps, cluster |-> r.cluster,
                  shown |-> DfHead(r.matches, HEAD_LIMIT)]

NotCached == [loaded |-> FALSE]
NoInput == [name |-> -1, audio |-> FALSE, ok |-> FALSE, a |-> 0]

\* One run of the app.py script: the cached load, then, when a file was
\* uploaded or downloaded, predict_cluster and the first ten matches.
\* st.cache keeps the pair of the first load that succeeded; asLoaded
\* remembers that pair as it was loaded.
AppScriptResult(c, d, input) ==
    LET ld == IF c.loaded THEN [error |-> "none", model |-> c.model, ref_df |-> c.ref_df]
              ELSE LoadModelAndData(d)
        asLoaded == IF c.loaded THEN c.asLoaded
                    ELSE [model |-> ld.model, ref_df |-> ld.ref_df]
    IN  IF ld.error # "none"
        THEN [cache |-> c,
              out |-> [cmd |-> "app", loadError |-> ld.error,
                       error |-> ld.error, steps |-> <<>>, cluster |-> -1,
                       shown |-> <<>>]]
        ELSE IF input = NoInput
        THEN [cache |-> [loaded |-> TRUE, model |-> ld.model, ref_df |-> ld.ref_df,
                         asLoaded |-> asLoaded],
              out |-> [cmd |-> "app", loadError |-> "none",
                       error |-> "none", steps |-> <<>>, cluster |-> -1,
                       shown |-> <<>>]]
        ELSE LET r == PredictCluster(input, ld.model, ld.ref_df)
             IN  [cache |-> [loaded |-> TRUE, model |-> r.model, ref_df |-> r.ref_df,
                             asLoaded |-> asLoaded],
                  out |-> [cmd |-> "app", loadError |-> "none",
                           error |-> r.error, steps |-> r.steps,
                           cluster |-> r.cluster,
                           shown |-> DfHead(r.matches, HEAD_LIMIT)]]

---------------------------------------------------------------------------
(* The pipeline: training runs and inference commands over one corpus *)

\* Files handed to inference: the corpus' files, a file that does not
\* decode, and clips that are not in the corpus.
ExternalFiles ==
    {[name |-> 0, audio |-> TRUE, ok |-> FALSE, a |-> 0],
     [name |-> 0, audio |-> TRUE, ok |-> TRUE, a |-> 2]}

InferenceInputs == {corpus[i] : i \in 1..Len(corpus)} \cup ExternalFiles

\* The corpora of the serving study: decodable audio files only, listed in
\* the order of their features.
ServeCorpora ==
    {c \in Corpora : /\ \A i \in 1..Len(c) : c[i].audio /\ c[i].ok
                     /\ \A i \in 1..(Len(c) - 1) : c[i].a <= c[i + 1].a}

\* For every k, the results of fit_predict on the corpus' feature matrix.
\* The corpus does not change, so they are computed once.
FitsOf(dir) == [k \in 1..MaxK |-> Fits(LoadAudioFeatures(dir).features, k)]

InitTrain ==
    /\ corpus \in Corpora
    /\ kmeans = FitsOf(corpus)
    /\ disk = [model |-> NoFile, csv |-> NoFile]
    /\ runs = 0
    /\ km = IdleKm
    /\ vp = IdleVp
    /\ cache = NotCached
    /\ last = [cmd |-> "none"]
    /\ lk = IdleLk
    /\ asg = IdleAsg
    /\ ex = IdleEx

Init ==
    /\ corpus \in ServeCorpora
    /\ kmeans = FitsOf(corpus)
    /\ disk = [model |-> NoFile, csv |-> NoFile]
    /\ runs = 0
    /\ km = IdleKm
    /\ vp = IdleVp
    /\ cache = NotCached
    /\ last = [cmd |-> "none"]
    /\ lk = IdleLk
    /\ asg = IdleAsg
    /\ ex = IdleEx

\* python train_model.py [--elbow] --n_clusters k
TrainMain ==
    /\ runs < MaxRuns
    /\ \E k \in 1..MaxK, elbow \in BOOLEAN :
         LET X == LoadAudioFeatures(corpus).features
         IN  \E fit \in (IF elbow /\ ElbowRaises(X) THEN {NoFit} ELSE kmeans[k]) :
               \E csvFails \in BOOLEAN :
                 LET r == TrainMainResult(disk, corpus, k, elbow, fit,
                                          runs + 1, csvFails)
                 IN  /\ disk' = r.disk
                     /\ last' = r.out
    /\ runs' = runs + 1
    /\ UNCHANGED <<km, vp, corpus, kmeans, cache, lk, asg, ex>>

\* python test_model.py --test_file file
TestMain ==
    /\ \E file \in InferenceInputs : last' = TestMainResult(disk, file)
    /\ UNCHANGED <<km, vp, corpus, kmeans, disk, runs, cache, lk, asg, ex>>

\* A run of the Streamlit script, with or without an input file.
AppRun ==
    /\ \E input \in InferenceInputs \cup {NoInput} :
         LET r == AppScriptResult(cache, disk, input)
         IN  /\ cache' = r.cache
             /\ last' = r.out
    /\ UNCHANGED <<km, vp, corpus, kmeans, disk, runs, lk, asg, ex>>

Next == TrainMain \/ TestMain \/ AppRun

\* Training runs alone, over every corpus.
SpecTrain == InitTrain /\ [][TrainMain]_vars

\* Training runs and inference commands, over the serving corpora.
Spec == Init /\ [][Next]_vars

---------------------------------------------------------------------------
(* Claims about training (SpecTrain) *)

\* The two files on disk were written by one and the same training run.
TrainedTogether(d) == d.model.exists /\ d.csv.exists /\ d.model.run = d.csv.run

\* Names (positions) of the corpus' audio files that decode / do not decode.
Decodable(dir) == {i \in 1..Len(dir) : dir[i].audio /\ dir[i].ok}
Undecodable(dir) == {i \in 1..Len(dir) : dir[i].audio /\ ~dir[i].ok}

\* C4: with n >= 1 decodable and m undecodable audio files, bulk loading
\* does not abort on a file's failure: it ends with exactly n feature
\* vectors and n filenames, logs exactly m skips, the i-th filename is the
\* file the i-th vector was extracted from, and a skipped file is in
\* neither list.
C4_LoadSkipsFailures ==
    (last.cmd = "train" /\ Decodable(corpus) # {}) =>
        LET n == Cardinality(Decodable(corpus))
            m == Cardinality(Undecodable(corpus))
        IN  /\ Len(last.features) = n
            /\ Len(last.filenames) = n
            /\ Len(last.skipped) = m
            /\ \A i \in 1..Len(last.filenames) :
                 /\ last.filenames[i] \in Decodable(corpus)
                 /\ i <= Len(last.features)
                 /\ last.features[i] = ExtractFeatures(corpus[last.filenames[i]])
            /\ \A i, j \in 1..Len(last.filenames) :
                 i < j => last.filenames[i] < last.filenames[j]
            /\ \A i \in 1..Len(last.skipped) : last.skipped[i] \in Undecodable(corpus)
            /\ last.error \in {"none", "ValueError", "OSError"}

\* A load that skipped an undecodable file listed between two decodable
\* ones with different features.
C4_Witness ==
    /\ last.cmd = "train"
    /\ Len(corpus) = 3
    /\ Decodable(corpus) = {1, 3}
    /\ Undecodable(corpus) = {2}
    /\ corpus[1].a # corpus[3].a
    /\ last.filenames = <<1, 3>>
    /\ last.skipped = <<2>>

\* C5: a run with fewer usable feature vectors than requested clusters
\* (N < k, N = 0 included) ends in the insufficient-data error (sklearn's
\* ValueError) and writes neither file: nothing on disk is of this run.
C5_TooFewSamplesWritesNothing ==
    (last.cmd = "train" /\ Len(last.features) < last.k) =>
        /\ last.error = "ValueError"
        /\ disk.model.run # last.run
        /\ disk.csv.run # last.run

\* A second run with one usable file and k = 2, after a first run's files.
C5_Witness ==
    /\ last.cmd = "train"
    /\ last.run = 2
    /\ Len(last.features) = 1
    /\ last.k = 2
    /\ last.error = "ValueError"
    /\ TrainedTogether(disk)

\* C6: in every reachable state, also after a run that failed between the
\* two writes, the model file and the reference table on disk are a matched
\* pair: both absent, or both written by the same training run.
C6_AlwaysMatchedPair ==
    \/ ~disk.model.exists /\ ~disk.csv.exists
    \/ TrainedTogether(disk)

\* C12: the diagnostics (elbow) mode does not change a training run's
\* outcome: whenever the run without --elbow would fit a model on this
\* corpus and k (fit accepts the matrix) and the table can be written, the
\* run with --elbow ends without error and leaves on disk a model and a
\* table that a run without --elbow could have written.
C12_ElbowKeepsOutcome ==
    (/\ last.cmd = "train"
     /\ last.elbow
     /\ ~FitRaises(last.features, last.k)
     /\ last.error # "OSError") =>
        /\ last.error = "none"
        /\ \E fit \in kmeans[last.k] :
              /\ disk.model = ModelFile(fit, last.run)
              /\ disk.csv = CsvFile(BuildFrame(last.filenames, fit.labels), last.run)

---------------------------------------------------------------------------
(* Claims about serving (Spec) *)

\* C3: after a training run persisted both files, reloading them and
\* classifying any training file (with test_model.py, or with a fresh run
\* of the app) returns the cluster id the reference table records for it.
C3_RoundTrip ==
    TrainedTogether(disk) =>
        LET ref == ReadCsv(disk.csv.rows)
        IN  \A i \in 1..Len(ref) :
              LET file == corpus[ref[i].filename]
                  t == TestMainResult(disk, file)
                  u == AppScriptResult(NotCached, disk, file).out
              IN  /\ t.error = "none" /\ t.cluster = ref[i].cluster
                  /\ u.error = "none" /\ u.cluster = ref[i].cluster

\* test_model.py classified a training file into cluster 1 of a two-cluster
\* model trained on three files, as the table records.
C3_Witness ==
    /\ last.cmd = "test"
    /\ last.error = "none"
    /\ last.cluster = 1
    /\ TrainedTogether(disk)
    /\ disk.model.k = 2
    /\ Len(disk.csv.rows) = 3
    /\ \E i \in 1..Len(disk.csv.rows) :
         /\ ReadCsv(disk.csv.rows)[i].cluster = 1
         /\ TestMainResult(disk, corpus[disk.csv.rows[i][1]]) = last

\* C7: when the model file or the reference table is missing, loading
\* fails with FileNotFoundError, and a run whose load failed ends with that
\* error having attempted no inference step (no extraction, no assignment).
C7_MissingFileFailsBeforeInference ==
    last.cmd \in {"test", "app"} =>
        /\ (~disk.model.exists \/ ~disk.csv.exists)
              => last.loadError = "FileNotFoundError"
        /\ last.loadError # "none" =>
              /\ last.loadError = "FileNotFoundError"
              /\ last.error = "FileNotFoundError"
              /\ last.steps = <<>>
              /\ last.cluster = -1

\* An app run that failed to load because only the model file exists.
C7_Witness ==
    /\ last.cmd = "app"
    /\ last.loadError = "FileNotFoundError"
    /\ last.steps = <<>>
    /\ disk.model.exists
    /\ ~disk.csv.exists

\* Every cluster id of the table is in the model's range [0, k).
InRange(model, ref_df) ==
    \A i \in 1..Len(ref_df) : ref_df[i].cluster \in 0..(model.k - 1)

\* C8: loading never succeeds with a reference table that holds a cluster
\* id outside the model's range [0, k): the mismatch is signalled at load.
C8_MismatchRejectedAtLoad ==
    /\ (last.cmd = "test" /\ last.loadError = "none")
          => InRange(disk.model, ReadCsv(disk.csv.rows))
    /\ cache.loaded => InRange(cache.asLoaded.model, cache.asLoaded.ref_df)

\* C10: serving requests never mutates the cached pair: the model (k and
\* centroids) and the table (rows and their order) are, after every script
\* run, what they were right after loading.
C10_InferenceKeepsLoadedPair ==
    cache.loaded =>
        /\ cache.model = cache.asLoaded.model
        /\ cache.ref_df = cache.asLoaded.ref_df

\* A classify request served from the cache whose lookup selected some but
\* not all rows of the table.
C10_Witness ==
    /\ cache.loaded
    /\ last.cmd = "app"
    /\ last.steps = <<"extract", "assign", "lookup">>
    /\ Len(last.shown) > 0
    /\ Len(last.shown) < Len(cache.ref_df)

---------------------------------------------------------------------------
(* video_processor.py: one VideoProcessor and its output directory         *)
(*                                                                         *)
(* A file of the output directory is [state, call]: state is "absent",     *)
(* "empty" (zero bytes), "partial" (a write that was cut short) or         *)
(* "complete"; call is the number of the extract_audio_from_url call that  *)
(* wrote it.  vp.video is output_dir/video.mp4, vp.audio is                *)
(* output_dir/audio.wav.  A direct video URL is one ending in .mp4, whose  *)
(* output path is video.mp4 as well.                                       *)

INVIDIOUS_INSTANCES == 4
ALTERNATIVE_DOMAINS == 3

MaxCalls == 2      \* calls of extract_audio_from_url on one VideoProcessor

NoMedia == [state |-> "absent", call |-> 0]
Written(call) == [state |-> "complete", call |-> call]
Cut(call) == [state |-> "partial", call |-> call]
Empty(call) == [state |-> "empty", call |-> call]

\* os.path.exists(path) and os.path.getsize(path) > 0
NonEmpty(f) == f.state \in {"partial", "complete"}

\* An argument of extract_audio_from_url: str says it is a string, empty
\* that it is "", direct that it ends in a video extension, id that
\* _extract_youtube_id finds a video id in it, youtu_be that it contains
\* 'youtu.be'.
Urls ==
    {[str |-> FALSE, empty |-> FALSE, direct |-> FALSE, id |-> FALSE, youtu_be |-> FALSE],
     [str |-> TRUE, empty |-> TRUE, direct |-> FALSE, id |-> FALSE, youtu_be |-> FALSE],
     [str |-> TRUE, empty |-> FALSE, direct |-> TRUE, id |-> FALSE, youtu_be |-> FALSE],
     [str |-> TRUE, empty |-> FALSE, direct |-> FALSE, id |-> FALSE, youtu_be |-> FALSE],
     [str |-> TRUE, empty |-> FALSE, direct |-> FALSE, id |-> TRUE, youtu_be |-> FALSE],
     [str |-> TRUE, empty |-> FALSE, direct |-> FALSE, id |-> TRUE, youtu_be |-> TRUE],
     [str |-> TRUE, empty |-> FALSE, direct |-> FALSE, id |-> FALSE, youtu_be |-> TRUE]}

\* not video_url or not isinstance(video_url, str)
InvalidUrl(url) == ~url.str \/ url.empty

\* with yt_dlp.YoutubeDL(opts) as ydl: ydl.download([url]) on the output
\* path f: it writes the file; or it returns having written nothing there
\* (an error it ignored, nothing to download, the file already there); or
\* it raises.
YtDlp(f, call) ==
    {[file |-> Written(call), raised |-> FALSE],
     [file |-> f, raised |-> FALSE],
     [file |-> f, raised |-> TRUE]}

\* What a call of _download_or_get_video ends with: ret is the file it
\* returns the path of ("video", "audio") or "none" when it raises;
\* attempts lists the strategies it tried, each with whether the code took
\* it for a success.
Returned(path, v, a, att) == [ret |-> path, video |-> v, audio |-> a, attempts |-> att]
Raised(v, a, att) == [ret |-> "none", video |-> v, audio |-> a, attempts |-> att]
Try(name, ok) == <<[name |-> name, ok |-> ok]>>

\* The retry with 'youtu.be/' rewritten to 'youtube.com/watch?v=', and the
\* final check that raises RuntimeError.
Rewritten(v, a, call, att) ==
    {IF ~o.raised /\ NonEmpty(o.file)
     THEN Returned("video", o.file, a, att \o Try("rewritten", TRUE))
     ELSE Raised(o.file, a, att \o Try("rewritten", FALSE)) : o \in YtDlp(v, call)}

\* Third attempt: worst quality, outside any try: an exception of the
\* download leaves _download_or_get_video at once.
Fallback(url, v, a, call, att) ==
    UNION {IF o.raised THEN {Raised(o.file, a, att \o Try("fallback", FALSE))}
           ELSE IF NonEmpty(o.file)
                THEN {Returned("video", o.file, a, att \o Try("fallback", TRUE))}
           ELSE IF url.youtu_be
                THEN Rewritten(o.file, a, call, att \o Try("fallback", FALSE))
           ELSE {Raised(o.file, a, att \o Try("fallback", FALSE))} :
           o \in YtDlp(v, call)}

\* _download_direct_audio_url(video_id, audio_path): True after writing the
\* response to audio.wav (which may be empty); False when a request fails,
\* also after the file was opened and the transfer broke.
DownloadDirectAudioUrl(a, call) ==
    {[result |-> TRUE, file |-> Written(call)],
     [result |-> TRUE, file |-> Empty(call)],
     [result |-> FALSE, file |-> Cut(call)],
     [result |-> FALSE, file |-> a]}

DirectAudio(url, v, a, call, att) ==
    UNION {IF r.result
           THEN {Returned("audio", v, r.file, att \o Try("direct_audio", TRUE))}
           ELSE Fallback(url, v, r.file, call, att \o Try("direct_audio", FALSE)) :
           r \in DownloadDirectAudioUrl(a, call)}

RECURSIVE DownloadViaAlternativeDomain(_, _, _)
\* _download_via_alternative_domain: domain by domain, True as soon as a
\* download returned and the output file is there and not empty.
DownloadViaAlternativeDomain(f, call, d) ==
    IF d > ALTERNATIVE_DOMAINS THEN {[result |-> FALSE, file |-> f]}
    ELSE UNION {IF ~o.raised /\ NonEmpty(o.file)
                THEN {[result |-> TRUE, file |-> o.file]}
                ELSE DownloadViaAlternativeDomain(o.file, call, d + 1) :
                o \in YtDlp(f, call)}

\* _download_via_y2mate: returns False, writes nothing.
DownloadViaY2mate(f) == [result |-> FALSE, file |-> f]

RECURSIVE DownloadViaInvidious(_, _, _)
\* _download_via_invidious: instance by instance; an instance is skipped
\* (continue), or its audio is written to the output path (True, the file
\* may be empty), or the transfer breaks after open(output_path, 'wb') and
\* the next instance is tried.
DownloadViaInvidious(f, call, i) ==
    IF i > INVIDIOUS_INSTANCES THEN {[result |-> FALSE, file |-> f]}
    ELSE {[result |-> TRUE, file |-> Written(call)],
          [result |-> TRUE, file |-> Empty(call)]}
         \cup DownloadViaInvidious(f, call, i + 1)
         \cup DownloadViaInvidious(Cut(call), call, i + 1)

\* The loop over proxy_methods, unrolled: a method counts when it returned
\* True and the output file is there and not empty.
ViaAlternativeDomain(url, v, a, call, att) ==
    UNION {IF r.result /\ NonEmpty(r.file)
           THEN {Returned("video", r.file, a, att \o Try("alternative_domain", TRUE))}
           ELSE DirectAudio(url, r.file, a, call,
                            att \o Try("alternative_domain", FALSE)) :
           r \in DownloadViaAlternativeDomain(v, call, 1)}

ViaY2mate(url, v, a, call, att) ==
    LET r == DownloadViaY2mate(v)
    IN  IF r.result /\ NonEmpty(r.file)
        THEN {Returned("video", r.file, a, att \o Try("y2mate", TRUE))}
        ELSE ViaAlternativeDomain(url, r.file, a, call, att \o Try("y2mate", FALSE))

ViaInvidious(url, v, a, call, att) ==
    UNION {IF r.result /\ NonEmpty(r.file)
           THEN {Returned("video", r.file, a, att \o Try("invidious", TRUE))}
           ELSE ViaY2mate(url, r.file, a, call, att \o Try("invidious", FALSE)) :
           r \in DownloadViaInvidious(v, call, 1)}

\* _download_or_get_video(url) with video.mp4 = v and audio.wav = a in the
\* output directory: every way the call can end.
DownloadOrGetVideo(url, v, a, call) ==
    IF url.direct
    THEN {IF o.raised THEN Raised(o.file, a, Try("direct", FALSE))
          ELSE Returned("video", o.file, a, Try("direct", TRUE)) : o \in YtDlp(v, call)}
    ELSE UNION {IF ~o.raised /\ NonEmpty(o.file)
                THEN {Returned("video", o.file, a, Try("standard", TRUE))}
                ELSE IF ~url.id
                     THEN Fallback(url, o.file, a, call, Try("standard", FALSE))
                ELSE ViaInvidious(url, o.file, a, call, Try("standard", FALSE)) :
                o \in YtDlp(v, call)}

\* _extract_audio(video_path) with src the file at video_path (inPlace:
\* video_path is audio.wav itself, which ffmpeg refuses to convert onto
\* itself).  how tells which way it ended: "ffmpeg" (ffmpeg-python wrote
\* audio.wav), "alternative" (the os.system command wrote it), "leftover"
\* (both failed and the audio.wav found there was returned), "failed"
\* (both failed, RuntimeError), "crashed" (run raised something other than
\* ffmpeg.Error).
ExtractAudio(src, inPlace, a, call) ==
    LET canConvert == NonEmpty(src) /\ ~inPlace
        kept == IF NonEmpty(a) THEN {[ret |-> "audio", audio |-> a, how |-> "leftover"]}
                ELSE {[ret |-> "none", audio |-> a, how |-> "failed"]}
    IN  (IF canConvert
         THEN {[ret |-> "audio", audio |-> Written(call), how |-> "ffmpeg"],
               [ret |-> "audio", audio |-> Written(call), how |-> "alternative"]}
         ELSE {})
        \cup {[ret |-> "none", audio |-> a, how |-> "crashed"]}
        \cup kept
        \cup (IF inPlace THEN {}
              ELSE {[ret |-> "audio", audio |-> Cut(call), how |-> "leftover"]})

\* extract_audio_from_url(video_url): every way the call can end, as the
\* new contents of the output directory and the record of the call.
ExtractAudioFromUrlResults(url, v, a, call) ==
    IF InvalidUrl(url)
    THEN {[video |-> v, audio |-> a,
           out |-> [url |-> url, result |-> "ValueError", video_path |-> "none",
                    attempts |-> <<>>, how |-> "none"]]}
    ELSE UNION {
           IF d.ret = "none"
           THEN {[video |-> d.video, audio |-> d.audio,
                  out |-> [url |-> url, result |-> "RuntimeError",
                           video_path |-> "none", attempts |-> d.attempts,
                           how |-> "none"]]}
           ELSE {[video |-> d.video, audio |-> e.audio,
                  out |-> [url |-> url,
                           result |-> IF e.ret = "none" THEN "RuntimeError" ELSE "path",
                           video_path |-> d.ret, attempts |-> d.attempts,
                           how |-> e.how]] :
                 e \in ExtractAudio(IF d.ret = "video" THEN d.video ELSE d.audio,
                                    d.ret = "audio", d.audio, call)} :
           d \in DownloadOrGetVideo(url, v, a, call)}

\* VideoProcessor(): an empty temporary directory, no call yet.
InitVideo ==
    /\ vp = [calls |-> 0, video |-> NoMedia, audio |-> NoMedia,
             out |-> [result |-> "none"]]
    /\ km = IdleKm
    /\ lk = IdleLk
    /\ asg = IdleAsg
    /\ ex = IdleEx
    /\ corpus = <<>>
    /\ kmeans = <<>>
    /\ disk = <<>>
    /\ runs = 0
    /\ cache = <<>>
    /\ last = <<>>

\* processor.extract_audio_from_url(url)
ExtractAudioFromUrl ==
    /\ vp.calls < MaxCalls
    /\ \E url \in Urls :
         \E r \in ExtractAudioFromUrlResults(url, vp.video, vp.audio, vp.calls + 1) :
           vp' = [calls |-> vp.calls + 1, video |-> r.video, audio |-> r.audio,
                  out |-> r.out]
    /\ UNCHANGED <<km, lk, asg, ex, corpus, kmeans, disk, runs, cache, last>>

SpecVideo == InitVideo /\ [][ExtractAudioFromUrl]_vars

---------------------------------------------------------------------------
(* Claims about the video processor (SpecVideo) *)

\* The download of the last call failed: _download_or_get_video raised.
DownloadFailed == vp.out.video_path = "none"

\* The extraction of the last call failed: neither ffmpeg invocation wrote
\* audio.wav.
ExtractionFailed == vp.out.how \in {"leftover", "failed", "crashed"}

\* C11: extract_audio_from_url has exactly three outcomes.  It raises
\* ValueError exactly when the URL is empty or not a string, before any
\* download is attempted; for a valid URL it raises RuntimeError exactly
\* when the download or the audio extraction failed; otherwise it returns
\* the path of the audio file this call extracted.
C11_ThreeOutcomes ==
    vp.calls > 0 =>
        /\ vp.out.result \in {"ValueError", "RuntimeError", "path"}
        /\ vp.out.result = "ValueError" <=> InvalidUrl(vp.out.url)
        /\ vp.out.result = "ValueError" => vp.out.attempts = <<>>
        /\ ~InvalidUrl(vp.out.url) =>
              (vp.out.result = "RuntimeError" <=> (DownloadFailed \/ ExtractionFailed))
        /\ vp.out.result = "path" => vp.audio = Written(vp.calls)

\* The strategies of _download_or_get_video for a URL that is not a direct
\* video file, in the order of the claim.
StrategyOrder ==
    <<"standard", "invidious", "y2mate", "alternative_domain", "direct_audio",
      "fallback", "rewritten">>

\* The strategies that apply to a URL: the proxies and the direct audio
\* need a video id, the rewritten URL needs 'youtu.be' in the URL.
Applies(url, name) ==
    \/ name \in {"standard", "fallback"}
    \/ name \in {"invidious", "y2mate", "alternative_domain", "direct_audio"} /\ url.id
    \/ name = "rewritten" /\ url.youtu_be

Applicable(url) == SelectSeq(StrategyOrder, LAMBDA name : Applies(url, name))

\* C14: for a URL that is not a direct video file, the strategies are tried
\* in the one fixed order; a strategy is attempted only if every earlier
\* one failed; the first success ends the sequence; and the call reports
\* failure only after every applicable strategy was attempted and failed.
C14_OrderedStrategies ==
    (vp.calls > 0 /\ ~InvalidUrl(vp.out.url) /\ ~vp.out.url.direct) =>
        LET att == vp.out.attempts
            names == [i \in 1..Len(att) |-> att[i].name]
            n == Len(att)
        IN  /\ n >= 1
            /\ \A i \in 1..n : n <= Len(Applicable(vp.out.url))
                                 /\ names[i] = Applicable(vp.out.url)[i]
            /\ \A i \in 1..(n - 1) : ~att[i].ok
            /\ ~DownloadFailed => att[n].ok
            /\ DownloadFailed =>
                  /\ names = Applicable(vp.out.url)
                  /\ \A i \in 1..n : ~att[i].ok

\* The file whose path _download_or_get_video returned in the last call.
ReturnedFile == IF vp.out.video_path = "audio" THEN vp.audio ELSE vp.video

\* C15: whenever _download_or_get_video returns a path, the file there was
\* written completely during this call: it is not a partial file of a
\* strategy that failed midway, and not a file an earlier call on the same
\* VideoProcessor left in the output directory.
C15_ReturnedFileIsFresh ==
    (vp.calls > 0 /\ ~InvalidUrl(vp.out.url) /\ ~DownloadFailed) =>
        ReturnedFile = Written(vp.calls)

====
